---- MODULE Spec2Model ----
(***************************************************************************)
(* MUP1 web front end: the MUP1 frame codec (velocitydrive-protocol.js),   *)
(* the CoAP client with its request tracker (coap-client.js), the frame    *)
(* reassembler of the WebSerial connection and the page's disconnect       *)
(* (pages.js), and the controller's frame dispatcher and event emitter     *)
(* (lan966x-controller.js), modelled as state machines.                    *)
(*                                                                         *)
(* Bytes are naturals 0..255, byte arrays are sequences (the code's index  *)
(* i is i+1 here).  A JavaScript `undefined` read is the value Undefined.  *)
(***************************************************************************)
EXTENDS Integers, Sequences, FiniteSets, TLC

VARIABLES
    \* ---- frame codec harness (encodeFrame / decodeFrame) ----
    codecPc,          \* "input" | "encoded" | "decoded"
    codecType,        \* the type byte given to encodeFrame
    codecData,        \* the payload given to encodeFrame
    codecFrame,       \* encodeFrame's result
    codecResult,      \* decodeFrame's result
    \* ---- CoAP client (request tracker) ----
    messageId,        \* CoAPClient.messageId
    pendingRequests,  \* CoAPClient.pendingRequests: key -> entry
    calls,            \* one record per request() invocation, in call order
    wire,             \* what connection.sendBytes handed to the writer, in order
    now,              \* the clock setTimeout runs on, in ms
    connected,        \* app.controller / the read loop are alive
    rx,               \* the response the latest step dispatched and what it
                      \* did, or NoRx when the step dispatched none
    \* ---- WebSerialConnection receive path (handleIncomingData) ----
    stream,           \* the bytes the device sends
    clean,            \* the same frames with nothing between them
    fed,              \* how many bytes of stream the read loop has delivered
    rxBuffer,         \* WebSerialConnection.buffer
    emitted,          \* the frames given to onDataCallback, in order
    split,            \* the stream came in more than one chunk
    \* ---- LAN966xController (handleFrame, on / once / off / emit) ----
    subs,             \* the callbacks ever registered, by id
    callbacks,        \* LAN966xController.callbacks: event -> ids, in order
    invoked,          \* how often each callback has been called
    handled,          \* handleFrame calls so far
    lastRoute,        \* what the latest handleFrame did with its frame
    lastEmit,         \* the callbacks the latest emit found and called
    \* ---- CoAP message builder harness (buildMessage) ----
    buildPc,          \* "input" | "built"
    buildIn,          \* the arguments given to buildMessage
    buildOut,         \* buildMessage's result
    \* ---- LAN966xController operations (ping, saveConfiguration, ...) ----
    ops               \* one record per operation invoked, in call order

codecVars == <<codecPc, codecType, codecData, codecFrame, codecResult>>
clientVars == <<messageId, pendingRequests, calls, wire, now, connected, rx>>
linkVars == <<stream, clean, fed, rxBuffer, emitted, split>>
ctlVars == <<subs, callbacks, invoked, handled, lastRoute, lastEmit>>
msgVars == <<buildPc, buildIn, buildOut>>
opVars == <<ops>>
notClient == <<codecVars, linkVars, ctlVars, msgVars, opVars>>
notCodec == <<clientVars, linkVars, ctlVars, msgVars, opVars>>
notLink == <<codecVars, clientVars, ctlVars, msgVars, opVars>>
notCtl == <<codecVars, linkVars, msgVars, opVars>>
notOps == <<codecVars, linkVars, msgVars>>
notMsg == <<codecVars, clientVars, linkVars, ctlVars, opVars>>
vars == <<codecPc, codecType, codecData, codecFrame, codecResult,
          messageId, pendingRequests, calls, wire, now, connected, rx,
          stream, clean, fed, rxBuffer, emitted, split,
          subs, callbacks, invoked, handled, lastRoute, lastEmit,
          buildPc, buildIn, buildOut, ops>>

----------------------------------------------------------------------------
(* Bounds of the model *)

\* longest payload given to encodeFrame in the codec harness
MaxLen == 3
\* request() invocations a run looks at
MaxRequests == 2
\* clock step, in ms
TickMs == 5000
\* the clock stops here, in ms
MaxTime == 15000
\* frames in a device stream, and frames handleFrame is given
MaxFrames == 2
\* callbacks registered with on() and once()
MaxSubs == 2
\* controller operations (ping, saveConfiguration, ...) a run looks at
MaxOps == 2
\* path segments of a URI given to buildMessage
MaxSegments == 2
\* longest path segment of a URI given to buildMessage
MaxSegLen == 14

----------------------------------------------------------------------------
(* Generic helpers for JavaScript values *)

Undefined == 0 - 1

\* arr[i] of a JavaScript array, i counted from 0
At(arr, i) == IF i >= 0 /\ i < Len(arr) THEN arr[i + 1] ELSE Undefined

\* arr.slice(from, to), 0 <= from
Slice(arr, from, to) ==
    LET hi == IF to > Len(arr) THEN Len(arr) ELSE to
    IN  IF hi <= from THEN <<>> ELSE SubSeq(arr, from + 1, hi)

\* arr.indexOf(b, from): the first index >= from holding b, or -1
IndexOf(arr, b, from) ==
    LET hits == {i \in from..(Len(arr) - 1) : arr[i + 1] = b}
    IN  IF hits = {} THEN -1 ELSE CHOOSE i \in hits : \A j \in hits : i <= j

\* all sequences over S of length 0..n
SeqsUpTo(S, n) == UNION {[1..k -> S] : k \in 0..n}

----------------------------------------------------------------------------
(* MUP1Protocol: constants *)

SOF == 62
EOF == 60
ESCAPE == 92

COMMANDS == [ANNOUNCEMENT |-> 65, COAP |-> 67, PING |-> 80,
             TRACE |-> 84, SYSTEM |-> 83]

ESCAPE_MAP == (0 :> 48) @@ (255 :> 70) @@ (62 :> 62) @@ (60 :> 60) @@ (92 :> 92)

needsEscape(byte) == byte = 0 \/ byte = 255 \/ byte = 62 \/ byte = 60 \/ byte = 92

\* reverseMap[escapedByte] || escapedByte : a mapped value of 0 is falsy
unescapeByte(escapedByte) ==
    LET reverseMap == (48 :> 0) @@ (70 :> 255) @@ (62 :> 62) @@ (60 :> 60) @@ (92 :> 92)
        mapped == IF escapedByte \in DOMAIN reverseMap
                  THEN reverseMap[escapedByte] ELSE Undefined
    IN  IF mapped # Undefined /\ mapped # 0 THEN mapped ELSE escapedByte

----------------------------------------------------------------------------
(* MUP1Protocol.calculateChecksum *)

RECURSIVE SumWords(_, _)
SumWords(data, i) ==
    IF i >= Len(data) THEN 0
    ELSE (IF i + 1 < Len(data)
          THEN data[i + 1] * 256 + data[i + 2]
          ELSE data[i + 1] * 256) + SumWords(data, i + 2)

\* a fold that throws the carry away
FoldCarryDropped(sum) == sum % 65536

\* while (sum >> 16) sum = (sum & 0xFFFF) + (sum >> 16)
RECURSIVE FoldCarry(_)
FoldCarry(sum) ==
    IF sum \div 65536 # 0 THEN FoldCarry((sum % 65536) + (sum \div 65536)) ELSE sum

calculateChecksum(data) == 65535 - FoldCarry(SumWords(data, 0))

\* one hexadecimal digit as an upper-case ASCII code
HexChar(d) == IF d < 10 THEN 48 + d ELSE 55 + d

\* n.toString(16).toUpperCase().padStart(4, '0') as char codes, 0 <= n <= 0xFFFF
ChecksumStr(n) ==
    <<HexChar(n \div 4096), HexChar((n \div 256) % 16),
      HexChar((n \div 16) % 16), HexChar(n % 16)>>

----------------------------------------------------------------------------
(* MUP1Protocol.encodeFrame *)

RECURSIVE EscapeData(_)
EscapeData(data) ==
    IF data = <<>> THEN <<>>
    ELSE (IF needsEscape(Head(data))
          THEN <<ESCAPE, ESCAPE_MAP[Head(data)]>>
          ELSE <<Head(data)>>) \o EscapeData(Tail(data))

\* the second EOF: pushed when the frame, first EOF included, has even length
EofPadding(frame) == IF Len(frame) % 2 = 0 THEN <<EOF>> ELSE <<>>

encodeFrame(type, data) ==
    LET body  == <<SOF, type>> \o EscapeData(data) \o <<EOF>>
        frame == body \o EofPadding(body)
    IN  frame \o ChecksumStr(calculateChecksum(frame))

createCoapFrame(coapMessage) == encodeFrame(COMMANDS.COAP, coapMessage)

\* encodeFrame(this.COMMANDS.PING): data defaults to an empty array
createPing == encodeFrame(COMMANDS.PING, <<>>)

\* the bytes encodeFrame checksums: everything before the last four
ChecksummedPart(frame) == SubSeq(frame, 1, Len(frame) - 4)

----------------------------------------------------------------------------
(* MUP1Protocol.decodeFrame *)

\* the while loop of decodeFrame: stops at the first EOF byte, escaped or not
RECURSIVE DecodeLoop(_, _, _, _)
DecodeLoop(buffer, i, escaping, data) ==
    IF ~(i < Len(buffer) - 4) THEN data
    ELSE LET byte == buffer[i + 1]
         IN  IF byte = EOF THEN data
             ELSE IF escaping
                  THEN DecodeLoop(buffer, i + 1, FALSE, Append(data, unescapeByte(byte)))
             ELSE IF byte = ESCAPE
                  THEN DecodeLoop(buffer, i + 1, TRUE, data)
             ELSE DecodeLoop(buffer, i + 1, FALSE, Append(data, byte))

\* String.fromCharCode(x) of a byte or of undefined (which gives "\0")
CharCode(x) == IF x = Undefined THEN 0 ELSE x

NoFrame == [ok |-> FALSE, error |-> "", type |-> 0, data |-> <<>>,
            checksum |-> <<>>, calculated |-> <<>>]

\* decodeFrame without its two checks of the input
decodeFrameUnchecked(buffer) ==
    LET data == DecodeLoop(buffer, 2, FALSE, <<>>)
        frameEnd == IndexOf(buffer, EOF, 2)
        checksumStart == IF At(buffer, frameEnd + 1) = EOF
                         THEN frameEnd + 2 ELSE frameEnd + 1
        providedChecksum == [k \in 1..4 |-> CharCode(At(buffer, checksumStart + k - 1))]
        frameForChecksum == Slice(buffer, 0, frameEnd + 1)
        calculatedChecksum == ChecksumStr(calculateChecksum(frameForChecksum))
    IN  [ok |-> TRUE, error |-> "", type |-> buffer[2], data |-> data,
         checksum |-> providedChecksum, calculated |-> calculatedChecksum]

decodeFrame(buffer) ==
    IF Len(buffer) < 8 THEN [NoFrame EXCEPT !.error = "Frame too short"]
    ELSE IF buffer[1] # SOF THEN [NoFrame EXCEPT !.error = "Invalid start of frame"]
    ELSE
      LET data == DecodeLoop(buffer, 2, FALSE, <<>>)
          frameEnd == IndexOf(buffer, EOF, 2)
          checksumStart == IF At(buffer, frameEnd + 1) = EOF
                           THEN frameEnd + 2 ELSE frameEnd + 1
          providedChecksum == [k \in 1..4 |-> CharCode(At(buffer, checksumStart + k - 1))]
          frameForChecksum == Slice(buffer, 0, frameEnd + 1)
          calculatedChecksum == ChecksumStr(calculateChecksum(frameForChecksum))
      IN  [ok |-> TRUE, error |-> "", type |-> buffer[2], data |-> data,
           checksum |-> providedChecksum, calculated |-> calculatedChecksum]

----------------------------------------------------------------------------
(* CoAP payload values.  cbor.js is outside the modelled sources: a value  *)
(* is carried as its CBOR bytes, null as the absent value.                 *)

NullPayload == [null |-> TRUE, raw |-> <<>>]
CborValue(bytes) == [null |-> FALSE, raw |-> bytes]
cborEncode(payload) == payload.raw
cborDecode(bytes) == CborValue(bytes)

----------------------------------------------------------------------------
(* CoAPClient: constants *)

METHODS == [GET |-> 1, POST |-> 2, PUT |-> 3, DELETE |-> 4, FETCH |-> 5]

RESPONSE_CODES ==
    (201 :> "Created") @@ (202 :> "Deleted") @@ (203 :> "Valid") @@
    (204 :> "Changed") @@ (205 :> "Content") @@ (400 :> "Bad Request") @@
    (401 :> "Unauthorized") @@ (404 :> "Not Found") @@
    (405 :> "Method Not Allowed") @@ (500 :> "Internal Server Error")

\* a delay of one second instead of ten
TimeoutOneSecond == 10 * 100

\* the delay given to setTimeout in request(), in ms
TIMEOUT_MS == 10000

\* the delay given to setTimeout in the controller's ping(), in ms
PING_TIMEOUT_MS == 1000

----------------------------------------------------------------------------
(* CoAPClient.encodeOptions: a URI is a sequence of char codes *)

\* str.split(sep): the pieces between the separators, empty pieces kept
RECURSIVE SplitOn(_, _, _)
SplitOn(str, sep, piece) ==
    IF str = <<>> THEN <<piece>>
    ELSE IF Head(str) = sep THEN <<piece>> \o SplitOn(Tail(str), sep, <<>>)
    ELSE SplitOn(Tail(str), sep, Append(piece, Head(str)))

Split(str, sep) == SplitOn(str, sep, <<>>)

\* list.filter(s => s) / filter(Boolean): the non-empty pieces
NonEmpty(list) == SelectSeq(list, LAMBDA s : s # <<>>)

\* one Uri-Path option (number 11) for a segment, prevOption being 0 or 11
PathOption(segment, prevOption) ==
    LET delta  == 11 - prevOption
        length == Len(segment)
        head ==
          IF delta < 13 /\ length < 13 THEN <<delta * 16 + length>>
          ELSE
            \* delta is 0 or 11 here, so only the branch delta < 13 is taken:
            \* firstByte = delta << 4, and a firstByte of 0 is never pushed
            LET firstByte == delta * 16
            IN  IF length < 13
                THEN (IF firstByte # 0 THEN <<firstByte + length>> ELSE <<>>)
                ELSE IF length < 269
                THEN (IF firstByte # 0 THEN <<firstByte + 13>> ELSE <<>>)
                     \o <<length - 13>>
                ELSE (IF firstByte # 0 THEN <<firstByte + 14>> ELSE <<>>)
                     \o <<(length - 269) \div 256, (length - 269) % 256>>
    IN  head \o segment

RECURSIVE PathOptions(_, _)
PathOptions(segments, prevOption) ==
    IF segments = <<>> THEN <<>>
    ELSE PathOption(Head(segments), prevOption) \o PathOptions(Tail(segments), 11)

\* one Uri-Query option (number 15), prevOption being 12 or 15
QueryOption(q, prevOption) ==
    LET delta == 15 - prevOption
        head  == IF delta < 13 /\ Len(q) < 13 THEN <<delta * 16 + Len(q)>>
                 ELSE <<(IF delta < 13 THEN delta ELSE 13) * 16 + 13, Len(q) - 13>>
    IN  head \o q

RECURSIVE QueryOptions(_, _)
QueryOptions(queries, prevOption) ==
    IF queries = <<>> THEN <<>>
    ELSE QueryOption(Head(queries), prevOption) \o QueryOptions(Tail(queries), 15)

encodeOptions(uri) ==
    LET parts     == Split(uri, 63)                       \* uri.split('?')
        pathPart  == parts[1]
        hasQuery  == Len(parts) >= 2 /\ parts[2] # <<>>   \* if (queryPart)
        segments  == NonEmpty(Split(pathPart, 47))        \* split('/')
        prevAfterPath == IF segments = <<>> THEN 0 ELSE 11
        contentFormat == <<(12 - prevAfterPath) * 16 + 1, 60>>
        queries   == IF hasQuery THEN NonEmpty(Split(parts[2], 38)) ELSE <<>>
    IN  PathOptions(segments, 0) \o contentFormat \o QueryOptions(queries, 12)

----------------------------------------------------------------------------
(* CoAPClient.buildMessage / parseResponse *)

\* (messageId >> 8) & 0xFF and messageId & 0xFF
MessageIdBytes(mid) == <<(mid \div 256) % 256, mid % 256>>

buildMessage(method, uri, payload, mid) ==
    <<64, method>> \o MessageIdBytes(mid) \o encodeOptions(uri)
        \o (IF ~payload.null THEN <<255>> \o cborEncode(payload) ELSE <<>>)

\* the 16-bit message-id a CoAP message carries in its header
HeaderMid(message) == message[3] * 256 + message[4]

NoResponse == [ok |-> FALSE, version |-> 0, type |-> 0, code |-> 0,
               messageId |-> 0, payload |-> NullPayload]

parseResponse(data) ==
    IF Len(data) < 4 THEN NoResponse
    ELSE
      LET tokenLength == data[1] % 16
          offset == 4 + tokenLength
          marker == IndexOf(data, 255, offset)
          payloadStart == IF marker = -1 THEN Len(data) ELSE marker + 1
      IN  [ok |-> TRUE,
           version |-> (data[1] \div 64) % 4,
           type |-> (data[1] \div 16) % 4,
           code |-> data[2],
           messageId |-> data[3] * 256 + data[4],
           payload |-> IF payloadStart < Len(data)
                       THEN cborDecode(Slice(data, payloadStart, Len(data)))
                       ELSE NullPayload]

----------------------------------------------------------------------------
(* Promises.  A promise is settled by the first resolve/reject call;       *)
(* later calls of its resolvers leave it as it is.                         *)

Unsettled == [state |-> "pending", payload |-> NullPayload, error |-> "",
              code |-> Undefined]
Resolved(payload) == [state |-> "resolved", payload |-> payload, error |-> "",
                      code |-> Undefined]
\* an Error with its message and, when set, its code and payload properties
Rejected(message, code, payload) ==
    [state |-> "rejected", payload |-> payload, error |-> message, code |-> code]

Settle(promise, outcome) == IF promise.state = "pending" THEN outcome ELSE promise

\* new Error(this.RESPONSE_CODES[code] || `Error ${code}`)
ErrorMessage(code) ==
    IF code \in DOMAIN RESPONSE_CODES THEN RESPONSE_CODES[code]
    ELSE "Error " \o ToString(code)

----------------------------------------------------------------------------
(* CoAPClient.request and its timer, CoAPClient.handleResponse,            *)
(* WebSerialConnection.sendBytes, disconnect                               *)

CallIds == 1..Len(calls)

\* the calls whose entry is in the pending map
InMap(pending) == {pending[k].call : k \in DOMAIN pending}

\* Map.set / Map.delete
MapSet(map, key, value) == [k \in DOMAIN map \cup {key} |->
                               IF k = key THEN value ELSE map[k]]
MapDelete(map, key) == [k \in DOMAIN map \ {key} |-> map[k]]

\* const mid = this.messageId++ : the value used, the counter goes up by one
AllocMid(counter) == counter
NextCounter(counter) == counter + 1

\* the key request() stores the entry under
EntryKey(mid) == mid

\* the promise the async function request() returns: it rejects with the
\* error sendBytes threw, and follows the inner promise once the write is done
Future(c) ==
    CASE calls[c].send = "writing" -> Unsettled
      [] calls[c].send = "failed"  -> Rejected(calls[c].sendError, Undefined, NullPayload)
      [] OTHER                     -> calls[c].promise

\* rx: the message-id of the dispatched response, the calls that were pending
\* with that message-id in their header, and the calls whose resolvers ran
NoRx == [kind |-> "none", mid |-> 0, waiting |-> {}, settled |-> {}]
Rx(mid, waiting, settled) ==
    [kind |-> "response", mid |-> mid, waiting |-> waiting, settled |-> settled]

\* the events handleFrame publishes; a Map without an array for an event
\* behaves in on, off and emit as one holding an empty array
Events == {"pong", "announcement", "system-response", "trace"}
NoCallbacks == [e \in Events |-> <<>>]

\* lastRoute: the destination handleFrame chose for a frame and the data it
\* passed; lastEmit: the ids emit found registered and the ids it called
NoRoute == [dest |-> "none", event |-> "", type |-> 0, data |-> <<>>,
            frame |-> <<>>]
NoEmit == [event |-> "", before |-> <<>>, called |-> <<>>, threw |-> FALSE]

\* the state request() leaves: the entry recorded, the timer armed, the frame
\* handed to the writer when the port is writable
NewCall(mid, message, writable) ==
    [mid |-> mid, hdr |-> HeaderMid(message), promise |-> Unsettled,
     settles |-> 0, at |-> now, timer |-> "armed", deadline |-> now + TIMEOUT_MS,
     send |-> IF writable THEN "writing" ELSE "failed",
     sendError |-> IF writable THEN "" ELSE "Not connected"]

\* request() is called no later than this: its timer and one more clock step
\* fit before MaxTime (the second a ping may take before the request comes
\* on top)
LastRequestTime == MaxTime - TIMEOUT_MS - TickMs + PING_TIMEOUT_MS

\* what sendBytes hands to the writer; `registered` records whether the
\* call's entry was in the map at that moment
Handed(id, frame, pendingAtWrite) ==
    [call |-> id, frame |-> frame, registered |-> id \in InMap(pendingAtWrite)]

\* request() with the two statements swapped: sendBytes is called before the
\* entry is set
RequestWriteFirst(method, uri, payload, writable) ==
    /\ connected
    /\ Len(calls) < MaxRequests
    /\ now <= LastRequestTime
    /\ LET mid     == AllocMid(messageId)
           message == buildMessage(method, uri, payload, mid)
           frame   == createCoapFrame(message)
           id      == Len(calls) + 1
           entry   == [call |-> id,
                       meta |-> [method |-> method, uri |-> uri, payload |-> payload]]
           pending1 == MapSet(pendingRequests, EntryKey(mid), entry)
       IN  /\ messageId' = NextCounter(messageId)
           /\ pendingRequests' = pending1
           /\ calls' = Append(calls, NewCall(mid, message, writable))
           /\ wire' = IF writable THEN Append(wire, Handed(id, frame, pendingRequests))
                                  ELSE wire
    /\ rx' = NoRx
    /\ UNCHANGED <<now, connected>>

\* request() whose frame goes to the head of the writer's queue
RequestQueueJump(method, uri, payload, writable) ==
    /\ connected
    /\ Len(calls) < MaxRequests
    /\ now <= LastRequestTime
    /\ LET mid     == AllocMid(messageId)
           message == buildMessage(method, uri, payload, mid)
           frame   == createCoapFrame(message)
           id      == Len(calls) + 1
           entry   == [call |-> id,
                       meta |-> [method |-> method, uri |-> uri, payload |-> payload]]
           pending1 == MapSet(pendingRequests, EntryKey(mid), entry)
       IN  /\ messageId' = NextCounter(messageId)
           /\ pendingRequests' = pending1
           /\ calls' = Append(calls, NewCall(mid, message, writable))
           /\ wire' = IF writable THEN <<Handed(id, frame, pending1)>> \o wire
                                  ELSE wire
    /\ rx' = NoRx
    /\ UNCHANGED <<now, connected>>

Request(method, uri, payload, writable) ==
    /\ connected
    /\ Len(calls) < MaxRequests
    /\ now <= LastRequestTime
    /\ LET mid     == AllocMid(messageId)
           message == buildMessage(method, uri, payload, mid)
           frame   == createCoapFrame(message)
           id      == Len(calls) + 1
           entry   == [call |-> id,
                       meta |-> [method |-> method, uri |-> uri, payload |-> payload]]
           pending1 == MapSet(pendingRequests, EntryKey(mid), entry)
       IN  /\ messageId' = NextCounter(messageId)
           /\ pendingRequests' = pending1
           /\ calls' = Append(calls, NewCall(mid, message, writable))
           /\ wire' = IF writable THEN Append(wire, Handed(id, frame, pending1))
                                  ELSE wire
    /\ rx' = NoRx
    /\ UNCHANGED <<now, connected>>

\* writer.write(bytes) settles: sendBytes returns, or throws what write threw
SendComplete(c, ok) ==
    /\ c \in CallIds
    /\ calls[c].send = "writing"
    /\ calls' = [calls EXCEPT ![c].send = IF ok THEN "ok" ELSE "failed",
                              ![c].sendError = IF ok THEN "" ELSE "write failed"]
    /\ rx' = NoRx
    /\ UNCHANGED <<messageId, pendingRequests, wire, now, connected>>

\* handleResponse testing the detail bits of the code instead of its class
ResponseOutcomeByDetail(response) ==
    IF response.code % 32 = 2
    THEN Resolved(response.payload)
    ELSE Rejected(ErrorMessage(response.code), response.code, response.payload)

\* what handleResponse gives the matched entry's resolvers
ResponseOutcome(response) ==
    IF response.code \div 32 = 2
    THEN Resolved(response.payload)
    ELSE Rejected(ErrorMessage(response.code), response.code, response.payload)

\* handleResponse without its delete: the matched entry stays in the map
DeleteMatchedKept(pending, key) == pending

\* this.pendingRequests.delete(response.messageId) on a match
DeleteMatched(pending, key) == MapDelete(pending, key)

\* handleResponse giving an unmatched response to the oldest pending entry
\* instead of dropping it
HandleResponseOldest(data) ==
    /\ connected
    /\ LET response == parseResponse(data)
           key == response.messageId
           waiting == {c \in InMap(pendingRequests) : calls[c].hdr = key}
           oldest == CHOOSE k \in DOMAIN pendingRequests :
                        \A j \in DOMAIN pendingRequests : k <= j
           used == IF key \in DOMAIN pendingRequests THEN key ELSE oldest
       IN  IF ~response.ok
           THEN /\ rx' = [NoRx EXCEPT !.kind = "invalid"]
                /\ UNCHANGED <<pendingRequests, calls>>
           ELSE IF DOMAIN pendingRequests # {}
           THEN LET c == pendingRequests[used].call
                IN  /\ pendingRequests' = DeleteMatched(pendingRequests, used)
                    /\ calls' = [calls EXCEPT
                                   ![c].promise = Settle(@, ResponseOutcome(response)),
                                   ![c].settles = @ + 1]
                    /\ rx' = Rx(key, waiting, IF used = key THEN {c} ELSE {})
           ELSE /\ rx' = Rx(key, waiting, {})
                /\ UNCHANGED <<pendingRequests, calls>>
    /\ UNCHANGED <<messageId, wire, now, connected>>

HandleResponse(data) ==
    /\ connected
    /\ LET response == parseResponse(data)
           key == response.messageId
           waiting == {c \in InMap(pendingRequests) : calls[c].hdr = key}
       IN  IF ~response.ok
           \* parseResponse threw: caught and logged
           THEN /\ rx' = [NoRx EXCEPT !.kind = "invalid"]
                /\ UNCHANGED <<pendingRequests, calls>>
           ELSE IF key \in DOMAIN pendingRequests
           THEN LET c == pendingRequests[key].call
                IN  /\ pendingRequests' = DeleteMatched(pendingRequests, key)
                    /\ calls' = [calls EXCEPT
                                   ![c].promise = Settle(@, ResponseOutcome(response)),
                                   ![c].settles = @ + 1]
                    /\ rx' = Rx(key, waiting, {c})
           ELSE /\ rx' = Rx(key, waiting, {})
                /\ UNCHANGED <<pendingRequests, calls>>
    /\ UNCHANGED <<messageId, wire, now, connected>>

\* setTimeout's delay has passed; timers of equal delay run in creation order
TimerDue(c) ==
    /\ calls[c].timer = "armed"
    /\ now >= calls[c].deadline
    /\ \A b \in 1..(c - 1) : calls[b].timer = "fired"

Timer(c) ==
    /\ c \in CallIds
    /\ TimerDue(c)
    /\ LET key == EntryKey(calls[c].mid)
       IN  IF key \in DOMAIN pendingRequests
           THEN /\ pendingRequests' = MapDelete(pendingRequests, key)
                /\ calls' = [calls EXCEPT
                               ![c].timer = "fired",
                               ![c].promise = Settle(@, Rejected("Request timeout",
                                                         Undefined, NullPayload)),
                               ![c].settles = @ + 1]
           ELSE /\ calls' = [calls EXCEPT ![c].timer = "fired"]
                /\ UNCHANGED pendingRequests
    /\ rx' = NoRx
    /\ UNCHANGED <<messageId, wire, now, connected>>

Tick ==
    /\ now + TickMs <= MaxTime
    /\ now' = now + TickMs
    /\ rx' = NoRx
    /\ UNCHANGED <<messageId, pendingRequests, calls, wire, connected>>

\* pages.js disconnect(): the read loop ends and app.controller is dropped;
\* nothing touches the CoAP client's pending map
Disconnect ==
    /\ connected
    /\ connected' = FALSE
    /\ rx' = NoRx
    /\ UNCHANGED <<messageId, pendingRequests, calls, wire, now>>

----------------------------------------------------------------------------
(* Inputs *)

\* the handshake of initialize(): FETCH "c?d=a" with the CBOR of [0x7278]
RequestInputs ==
    {[method |-> METHODS.FETCH, uri |-> <<99, 63, 100, 61, 97>>,
      payload |-> CborValue(<<129, 25, 114, 120>>)]}

\* code and body of the responses the device sends: 2.05 and 4.04, each with
\* a payload (the marker and one CBOR byte)
Responses ==
    {[code |-> 69, body |-> <<255, 1>>],
     [code |-> 132, body |-> <<255, 1>>]}

\* CoAP messages the device may send: an ACK (0x60) for the message-id of any
\* call made so far, a truncated message, and a 2.05 whose first byte (0xA0)
\* carries version 2
ResponseData ==
    {<<96, r.code>> \o MessageIdBytes(calls[c].hdr) \o r.body :
        r \in Responses, c \in CallIds}
    \cup {<<96, 69>>}
    \cup {<<160, 69>> \o MessageIdBytes(calls[c].hdr) \o <<255, 1>> : c \in CallIds}

\* payload bytes for the codec harness: every escaped byte, '0', 'A'
CodecBytes == {0, 255, 62, 60, 92, 48, 65}
CodecTypes == {COMMANDS.COAP, COMMANDS.PING}

----------------------------------------------------------------------------
(* The CoAP client's specification *)

CodecOff ==
    /\ codecPc = "off"
    /\ codecType = 0
    /\ codecData = <<>>
    /\ codecFrame = <<>>
    /\ codecResult = NoFrame

\* no device stream
LinkOff ==
    /\ stream = <<>>
    /\ clean = <<>>
    /\ fed = 0
    /\ rxBuffer = <<>>
    /\ emitted = <<>>
    /\ split = FALSE

\* a controller nobody has subscribed to and no frame has reached
CtlOff ==
    /\ subs = <<>>
    /\ callbacks = NoCallbacks
    /\ invoked = <<>>
    /\ handled = 0
    /\ lastRoute = NoRoute
    /\ lastEmit = NoEmit

\* buildMessage not exercised
MsgOff ==
    /\ buildPc = "off"
    /\ buildIn = <<>>
    /\ buildOut = <<>>

\* no controller operation invoked
OpsOff == ops = <<>>

\* the constructor's counter, and the counter of a long-lived client that
\* has made 65534 requests, all settled
InitCounters == {1, 65535}

\* a client in the state the constructor leaves, or later with an empty map
InitSettled ==
    /\ MsgOff
    /\ OpsOff
    /\ CodecOff
    /\ LinkOff
    /\ CtlOff
    /\ now = 0
    /\ connected = TRUE
    /\ rx = NoRx
    /\ messageId \in InitCounters
    /\ calls = <<>>
    /\ pendingRequests = <<>>
    /\ wire = <<>>

\* the request with message-id 1, made within the last clock step and still
\* waiting for its response
CarriedCall ==
    LET in == CHOOSE r \in RequestInputs : TRUE
        message == buildMessage(in.method, in.uri, in.payload, 1)
    IN  [call |-> [NewCall(1, message, TRUE) EXCEPT !.send = "ok"],
         entry |-> [call |-> 1, meta |-> in],
         handed |-> [call |-> 1, frame |-> createCoapFrame(message),
                     registered |-> TRUE]]

\* a client that has made 65536 requests without waiting for the responses
\* (request() returns at its first await), of which the first is still
\* unanswered
InitCarried ==
    /\ MsgOff
    /\ OpsOff
    /\ CodecOff
    /\ LinkOff
    /\ CtlOff
    /\ now = 0
    /\ connected = TRUE
    /\ rx = NoRx
    /\ messageId = 65537
    /\ calls = <<CarriedCall.call>>
    /\ pendingRequests = MapSet(<<>>, EntryKey(1), CarriedCall.entry)
    /\ wire = <<CarriedCall.handed>>

Init == InitSettled \/ InitCarried

Next ==
    \/ \E in \in RequestInputs, writable \in BOOLEAN :
          Request(in.method, in.uri, in.payload, writable) /\ UNCHANGED notClient
    \/ \E c \in CallIds, ok \in BOOLEAN : SendComplete(c, ok) /\ UNCHANGED notClient
    \/ \E data \in ResponseData : HandleResponse(data) /\ UNCHANGED notClient
    \/ \E c \in CallIds : Timer(c) /\ UNCHANGED notClient
    \/ Tick /\ UNCHANGED notClient
    \/ Disconnect /\ UNCHANGED notClient

Spec == Init /\ [][Next]_vars

\* the runs of a client whose earlier requests were all settled
SpecSettled == InitSettled /\ [][Next]_vars

\* the event loop runs a due timer, a write handed to the writer settles, and
\* time passes
Fairness ==
    /\ WF_vars((\E c \in CallIds : Timer(c)) /\ UNCHANGED notClient)
    /\ WF_vars((\E c \in CallIds, ok \in BOOLEAN : SendComplete(c, ok))
                  /\ UNCHANGED notClient)
    /\ WF_vars(Tick /\ UNCHANGED notClient)

SpecLive == Spec /\ Fairness

----------------------------------------------------------------------------
(* The codec harness: encodeFrame, then decodeFrame of its result *)

ClientOff ==
    /\ messageId = 1
    /\ pendingRequests = <<>>
    /\ calls = <<>>
    /\ wire = <<>>
    /\ now = 0
    /\ connected = FALSE
    /\ rx = NoRx

InitCodec ==
    /\ MsgOff
    /\ OpsOff
    /\ ClientOff
    /\ LinkOff
    /\ CtlOff
    /\ codecPc = "input"
    /\ codecType \in CodecTypes
    /\ codecData \in SeqsUpTo(CodecBytes, MaxLen)
    /\ codecFrame = <<>>
    /\ codecResult = NoFrame

Encode ==
    /\ codecPc = "input"
    /\ codecFrame' = encodeFrame(codecType, codecData)
    /\ codecPc' = "encoded"
    /\ UNCHANGED <<codecType, codecData, codecResult>>
    /\ UNCHANGED notCodec

Decode ==
    /\ codecPc = "encoded"
    /\ codecResult' = decodeFrame(codecFrame)
    /\ codecPc' = "decoded"
    /\ UNCHANGED <<codecType, codecData, codecFrame>>
    /\ UNCHANGED notCodec

NextCodec == Encode \/ Decode

SpecCodec == InitCodec /\ [][NextCodec]_vars

----------------------------------------------------------------------------
(* WebSerialConnection.handleIncomingData: the frame reassembler *)

\* a reassembler that cuts each frame from the start of the buffer instead
\* of from its '>'
RECURSIVE ExtractFromBufferStart(_, _)
ExtractFromBufferStart(buf, out) ==
    LET startIndex == IndexOf(buf, 62, 0)
        endIndex == IndexOf(buf, 60, startIndex)
        checksumEnd == IF At(buf, endIndex + 1) = 60 THEN endIndex + 6
                                                     ELSE endIndex + 5
    IN  IF startIndex = -1 THEN [buffer |-> buf, frames |-> out]
        ELSE IF endIndex = -1 THEN [buffer |-> buf, frames |-> out]
        ELSE IF Len(buf) < checksumEnd THEN [buffer |-> buf, frames |-> out]
        ELSE ExtractFromBufferStart(Slice(buf, checksumEnd, Len(buf)),
                                    Append(out, Slice(buf, 0, checksumEnd)))

\* a reassembler that cuts at most one frame off the buffer in each call
ExtractOneFrame(buf, out) ==
    LET startIndex == IndexOf(buf, 62, 0)
        endIndex == IndexOf(buf, 60, startIndex)
        checksumEnd == IF At(buf, endIndex + 1) = 60 THEN endIndex + 6
                                                     ELSE endIndex + 5
    IN  IF startIndex = -1 THEN [buffer |-> buf, frames |-> out]
        ELSE IF endIndex = -1 THEN [buffer |-> buf, frames |-> out]
        ELSE IF Len(buf) < checksumEnd THEN [buffer |-> buf, frames |-> out]
        ELSE [buffer |-> Slice(buf, checksumEnd, Len(buf)),
              frames |-> Append(out, Slice(buf, startIndex, checksumEnd))]

\* the while loop of handleIncomingData: cut complete frames off the buffer
\* until no '>' is left, no '<' follows it, or the checksum is incomplete
RECURSIVE ExtractFrames(_, _)
ExtractFrames(buf, out) ==
    LET startIndex == IndexOf(buf, 62, 0)
        endIndex == IndexOf(buf, 60, startIndex)
        checksumEnd == IF At(buf, endIndex + 1) = 60 THEN endIndex + 6
                                                     ELSE endIndex + 5
    IN  IF startIndex = -1 THEN [buffer |-> buf, frames |-> out]
        ELSE IF endIndex = -1 THEN [buffer |-> buf, frames |-> out]
        ELSE IF Len(buf) < checksumEnd THEN [buffer |-> buf, frames |-> out]
        ELSE ExtractFrames(Slice(buf, checksumEnd, Len(buf)),
                           Append(out, Slice(buf, startIndex, checksumEnd)))

\* a reassembler that forgets what it had buffered
HandleIncomingDataNoCarry(buf, bytes) == ExtractFrames(bytes, <<>>)

\* handleIncomingData(bytes): append to this.buffer, then extract; the result
\* is the new this.buffer and the frames given to onDataCallback
handleIncomingData(buf, bytes) == ExtractFrames(buf \o bytes, <<>>)

\* the result of handleFrame's decodeFrame for each emitted frame
DecodedFrames(list) == [i \in DOMAIN list |-> decodeFrame(list[i])]

\* payloads of the frames of a device stream: empty, plain, and with the
\* bytes the reassembler looks for ('<' and '>' are sent escaped)
LinkPayloads == {<<>>, <<65>>, <<65, 66>>, <<60, 65>>, <<62, 60>>}

\* bytes other than SOF that a device may send between two frames
Garbage == {<<>>, <<60>>, <<65, 92>>, <<60, 60, 48>>}

RECURSIVE Concat(_, _)
Concat(list, between) ==
    IF list = <<>> THEN <<>>
    ELSE IF Len(list) = 1 THEN list[1]
    ELSE list[1] \o between \o Concat(Tail(list), between)

\* the device streams: up to MaxFrames CoAP frames, with or without garbage
\* between them
InitLink ==
    /\ MsgOff
    /\ OpsOff
    /\ CodecOff
    /\ ClientOff
    /\ CtlOff
    /\ \E list \in SeqsUpTo({encodeFrame(COMMANDS.COAP, p) : p \in LinkPayloads},
                            MaxFrames),
          garbage \in Garbage :
          /\ stream = Concat(list, garbage)
          /\ clean = Concat(list, <<>>)
    /\ fed = 0
    /\ rxBuffer = <<>>
    /\ emitted = <<>>
    /\ split = FALSE

\* reader.read() returns the next n bytes and readLoop passes them on
Push(n) ==
    /\ fed + n <= Len(stream)
    /\ LET r == handleIncomingData(rxBuffer, SubSeq(stream, fed + 1, fed + n))
       IN  /\ rxBuffer' = r.buffer
           /\ emitted' = emitted \o r.frames
    /\ fed' = fed + n
    /\ split' = (fed > 0)
    /\ UNCHANGED <<stream, clean>>
    /\ UNCHANGED notLink

NextLink == \E n \in 1..Len(stream) : Push(n)

SpecLink == InitLink /\ [][NextLink]_vars

----------------------------------------------------------------------------
(* LAN966xController: handleFrame and the event emitter *)

\* callbacks.splice(callbacks.indexOf(callback), 1)
Remove(list, id) ==
    LET hits == {i \in DOMAIN list : list[i] = id}
    IN  IF hits = {} THEN list
        ELSE LET index == CHOOSE i \in hits : \A j \in hits : i <= j
             IN  SubSeq(list, 1, index - 1) \o SubSeq(list, index + 1, Len(list))

\* callbacks.forEach(cb => cb(...args)) on the live array: the length is read
\* once, an index the array no longer has is skipped, and an exception ends
\* the loop.  A once() wrapper calls the callback and then off().
RECURSIVE ForEach(_, _, _, _)
ForEach(list, k, len, called) ==
    IF k >= len THEN [list |-> list, called |-> called, threw |-> FALSE]
    ELSE IF k >= Len(list) THEN ForEach(list, k + 1, len, called)
    ELSE LET id == list[k + 1]
         IN  IF subs[id].throws
             THEN [list |-> list, called |-> Append(called, id), threw |-> TRUE]
             ELSE IF subs[id].once
             THEN ForEach(Remove(list, id), k + 1, len, Append(called, id))
             ELSE ForEach(list, k + 1, len, Append(called, id))

\* emit(event, ...args)
emit(event) == ForEach(callbacks[event], 0, Len(callbacks[event]), <<>>)

\* a dispatcher that sends trace frames to the system-response subscribers
EventOfTraceAsSystem(type) ==
    CASE type = 80 -> "pong"
      [] type = 65 -> "announcement"
      [] type = 83 -> "system-response"
      [] type = 84 -> "system-response"
      [] OTHER -> ""

\* the event cases of handleFrame's switch on decoded.type
EventOf(type) ==
    CASE type = 80 -> "pong"
      [] type = 65 -> "announcement"
      [] type = 83 -> "system-response"
      [] type = 84 -> "trace"
      [] OTHER -> ""

\* the switch of handleFrame on a decoded frame
RouteDecoded(decoded, frame) ==
    IF ~decoded.ok
    THEN [NoRoute EXCEPT !.dest = "error", !.frame = frame]
    ELSE [dest |-> IF decoded.type = 67 THEN "coap"
                   ELSE IF EventOf(decoded.type) # "" THEN "event"
                   ELSE "ignored",
          event |-> EventOf(decoded.type),
          type |-> decoded.type, data |-> decoded.data, frame |-> frame]

\* a dispatcher that drops the frames whose checksum does not match
RouteCheckedOnly(frame) ==
    LET decoded == decodeFrame(frame)
    IN  IF decoded.ok /\ decoded.checksum # decoded.calculated
        THEN [NoRoute EXCEPT !.dest = "error", !.frame = frame]
        ELSE RouteDecoded(decoded, frame)

\* handleFrame up to its switch: decodeFrame, whose exception is caught
Route(frame) == RouteDecoded(decodeFrame(frame), frame)

\* a registration that puts the callback in front of the earlier ones
SubscribeFirst(event, once, throws) ==
    /\ Len(subs) < MaxSubs
    /\ subs' = Append(subs, [event |-> event, once |-> once, throws |-> throws])
    /\ callbacks' = [callbacks EXCEPT ![event] = <<Len(subs) + 1>> \o @]
    /\ invoked' = Append(invoked, 0)
    /\ lastRoute' = NoRoute
    /\ lastEmit' = NoEmit
    /\ UNCHANGED handled

\* on(event, callback) / once(event, callback): the callback gets the next id
Subscribe(event, once, throws) ==
    /\ Len(subs) < MaxSubs
    /\ subs' = Append(subs, [event |-> event, once |-> once, throws |-> throws])
    /\ callbacks' = [callbacks EXCEPT ![event] = Append(@, Len(subs) + 1)]
    /\ invoked' = Append(invoked, 0)
    /\ lastRoute' = NoRoute
    /\ lastEmit' = NoEmit
    /\ UNCHANGED handled

On(event, throws) == Subscribe(event, FALSE, throws)

Once(event, throws) == Subscribe(event, TRUE, throws)

\* off(event, callback) for a callback registered with on()
Off(id) ==
    /\ id \in DOMAIN subs
    /\ ~subs[id].once
    /\ \E i \in DOMAIN callbacks[subs[id].event] : callbacks[subs[id].event][i] = id
    /\ callbacks' = [callbacks EXCEPT ![subs[id].event] = Remove(@, id)]
    /\ lastRoute' = NoRoute
    /\ lastEmit' = NoEmit
    /\ UNCHANGED <<subs, invoked, handled>>

\* the payload of the frames given to handleFrame: a CoAP 2.05 response with
\* message-id 0x1234
CtlPayload == <<96, 69, 18, 52>>

\* the frame with its four checksum characters replaced by others
Corrupt(frame) ==
    LET part == ChecksummedPart(frame)
        wrong == IF SubSeq(frame, Len(frame) - 3, Len(frame)) = <<48, 48, 48, 48>>
                 THEN <<70, 70, 70, 70>> ELSE <<48, 48, 48, 48>>
    IN  part \o wrong

\* frames of every type of the switch and of a type it does not know ('X'),
\* frames with a wrong checksum, the ping, and a CoAP frame too short for
\* parseResponse
CtlFrames ==
    {encodeFrame(t, CtlPayload) : t \in {80, 65, 67, 83, 84, 88}}
    \cup {Corrupt(encodeFrame(t, CtlPayload)) : t \in {80, 67}}
    \cup {createPing, encodeFrame(COMMANDS.COAP, <<96, 69>>)}

\* ---- the controller's operations ----

\* TextEncoder.encode of the command names and of the device's answers
Ascii ==
    [saveConfig   |-> <<115, 97, 118, 101, 45, 99, 111, 110, 102, 105, 103>>,
     factoryReset |-> <<102, 97, 99, 116, 111, 114, 121, 45, 114, 101, 115, 101, 116>>,
     reboot       |-> <<114, 101, 98, 111, 111, 116>>,
     info         |-> <<105, 110, 102, 111>>,
     success      |-> <<115, 117, 99, 99, 101, 115, 115>>,
     failed       |-> <<102, 97, 105, 108, 101, 100>>]

createSystemRequest(command) == encodeFrame(COMMANDS.SYSTEM, command)

\* the frame each operation hands to sendBytes
OpFrame ==
    [ping  |-> createPing,
     save  |-> createSystemRequest(Ascii.saveConfig),
     reset |-> createSystemRequest(Ascii.factoryReset),
     reboot |-> createSystemRequest(Ascii.reboot),
     info  |-> createSystemRequest(Ascii.info)]

\* the event each operation's once() handler waits for ("" for none)
OpEvent ==
    [ping |-> "pong", save |-> "system-response", reset |-> "system-response",
     reboot |-> "", info |-> "announcement"]

\* a JavaScript string value and a number value
JsString(chars) == [type |-> "string", chars |-> chars, number |-> 0]
JsNumber(n) == [type |-> "number", chars |-> <<>>, number |-> n]

\* Uint8Array.prototype.includes(searchElement): some element is the same
\* value as searchElement (SameValueZero); no byte is the same value as a
\* string
TypedArrayIncludes(data, searchElement) ==
    \E i \in DOMAIN data :
        searchElement.type = "number" /\ data[i] = searchElement.number

OpIds == DOMAIN ops

\* an operation just invoked: its frame goes to sendBytes, which throws when
\* the port is not writable
NewOp(kind, writable) ==
    [kind |-> kind,
     state |-> IF writable THEN "writing" ELSE "rejected",
     value |-> FALSE, data |-> <<>>, sub |-> 0,
     timer |-> "none", deadline |-> 0, at |-> now,
     step |-> "", call |-> 0, child |-> 0, port |-> 0]

\* what sendBytes hands to the writer for an operation
HandedOp(frame) == [call |-> 0, frame |-> frame, registered |-> FALSE]

\* resolve(value) of an operation's promise: the first settlement counts
ResolveOp(op, value, data) ==
    IF op.state = "waiting"
    THEN [op EXCEPT !.state = "resolved", !.value = value, !.data = data]
    ELSE op

\* the handler an operation gave to once(), called with the event's data
OpHandler(op, data) ==
    CASE op.kind = "ping" ->
            \* clearTimeout(timeout); resolve(true)
            ResolveOp([op EXCEPT !.timer = IF @ = "armed" THEN "cleared" ELSE @],
                      TRUE, data)
      [] op.kind \in {"save", "reset"} ->
            \* resolve(data.includes('success'))
            ResolveOp(op, TypedArrayIncludes(data, JsString(Ascii.success)), data)
      [] OTHER ->
            \* this.deviceInfo = parseAnnouncement(data); resolve(this.deviceInfo)
            ResolveOp(op, TRUE, data)

\* the operations after an emit has called the callbacks `called`
RunHandlers(called, data) ==
    [o \in DOMAIN ops |->
        IF \E i \in DOMAIN called : called[i] = ops[o].sub
        THEN OpHandler(ops[o], data) ELSE ops[o]]

\* ping(), saveConfiguration(), factoryReset(), reboot(), getDeviceInfo() up
\* to the await of sendBytes
StartOp(kind, writable) ==
    /\ ops' = Append(ops, NewOp(kind, writable))
    /\ wire' = IF writable THEN Append(wire, HandedOp(OpFrame[kind])) ELSE wire
    /\ lastRoute' = NoRoute
    /\ lastEmit' = NoEmit
    /\ rx' = NoRx
    /\ UNCHANGED <<subs, callbacks, invoked, handled>>
    /\ UNCHANGED <<messageId, pendingRequests, calls, now, connected>>

\* the write of an operation's frame settles.  On success reboot() returns
\* true; the other operations arm their timer (ping) and register their
\* handler with once().  On failure the operation rejects.
OpSendComplete(o, ok) ==
    /\ o \in OpIds
    /\ ops[o].state = "writing"
    /\ IF ok /\ OpEvent[ops[o].kind] # ""
       THEN /\ subs' = Append(subs, [event |-> OpEvent[ops[o].kind],
                                     once |-> TRUE, throws |-> FALSE])
            /\ callbacks' = [callbacks EXCEPT ![OpEvent[ops[o].kind]] =
                                Append(@, Len(subs) + 1)]
            /\ invoked' = Append(invoked, 0)
            /\ ops' = [ops EXCEPT
                         ![o].state = "waiting",
                         ![o].sub = Len(subs) + 1,
                         ![o].timer = IF ops[o].kind = "ping" THEN "armed" ELSE "none",
                         ![o].deadline = IF ops[o].kind = "ping"
                                         THEN now + PING_TIMEOUT_MS ELSE 0]
       ELSE /\ ops' = [ops EXCEPT
                         ![o].state = IF ok THEN "resolved" ELSE "rejected",
                         ![o].value = ok]
            /\ UNCHANGED <<subs, callbacks, invoked>>
    /\ lastRoute' = NoRoute
    /\ lastEmit' = NoEmit
    /\ rx' = NoRx
    /\ UNCHANGED handled
    /\ UNCHANGED <<messageId, pendingRequests, calls, wire, now, connected>>

\* ping()'s timer callback: resolve(false)
PingTimer(o) ==
    /\ o \in OpIds
    /\ ops[o].timer = "armed"
    /\ now >= ops[o].deadline
    /\ ops' = [ops EXCEPT ![o] = [ResolveOp(@, FALSE, <<>>) EXCEPT !.timer = "fired"]]
    /\ lastRoute' = NoRoute
    /\ lastEmit' = NoEmit
    /\ rx' = NoRx
    /\ UNCHANGED <<subs, callbacks, invoked, handled>>
    /\ UNCHANGED <<messageId, pendingRequests, calls, wire, now, connected>>

\* the deadlines of the timers still armed
Deadlines ==
    {ops[o].deadline : o \in {x \in OpIds : ops[x].timer = "armed"}}
    \cup {calls[c].deadline : c \in {x \in CallIds : calls[x].timer = "armed"}}

\* time passes up to the next deadline; a timer that is due runs first
Advance ==
    /\ Deadlines # {}
    /\ \A d \in Deadlines : d > now
    /\ now' = CHOOSE d \in Deadlines : \A e \in Deadlines : d <= e
    /\ lastRoute' = NoRoute
    /\ lastEmit' = NoEmit
    /\ rx' = NoRx
    /\ UNCHANGED <<subs, callbacks, invoked, handled, ops>>
    /\ UNCHANGED <<messageId, pendingRequests, calls, wire, connected>>

\* the pong the device sends: a P frame without payload, padded with a second
\* EOF, followed by its checksum 8573
DevicePong == <<62, 80, 60, 60, 56, 53, 55, 51>>

\* frames the device sends while operations run: a pong, system responses
\* with and without "success", an announcement
OpFrames ==
    {DevicePong,
     encodeFrame(COMMANDS.SYSTEM, Ascii.success),
     encodeFrame(COMMANDS.SYSTEM, Ascii.failed),
     encodeFrame(COMMANDS.ANNOUNCEMENT, CtlPayload)}

\* a frame of a device that sends a byte 0x00 as it is, not as "\0"
RECURSIVE DeviceEscape(_)
DeviceEscape(data) ==
    IF data = <<>> THEN <<>>
    ELSE (IF needsEscape(Head(data)) /\ Head(data) # 0
          THEN <<ESCAPE, ESCAPE_MAP[Head(data)]>>
          ELSE <<Head(data)>>) \o DeviceEscape(Tail(data))

DeviceFrame(type, data) ==
    LET body  == <<SOF, type>> \o DeviceEscape(data) \o <<EOF>>
        frame == body \o EofPadding(body)
    IN  frame \o ChecksumStr(calculateChecksum(frame))

\* CoAP responses to the requests initialize() makes: 2.05 and 4.04 for each
\* message-id, and the 2.05 for message-id 1 with its zero byte escaped
InitResponses ==
    {DeviceFrame(COMMANDS.COAP, <<96, code>> \o MessageIdBytes(mid) \o <<255, 1>>) :
        code \in {69, 132}, mid \in 1..MaxRequests}
    \cup {encodeFrame(COMMANDS.COAP, <<96, 69, 0, 1, 255, 1>>)}

\* frames decodeFrame has to reject: the 7 bytes of a ping without padding,
\* and a pong whose first byte is not SOF
RejectedFrames == {createPing, [DevicePong EXCEPT ![1] = EOF]}

\* what handleFrame's decodeFrame and switch make of each of these frames
Routes ==
    [frame \in CtlFrames \cup OpFrames \cup InitResponses \cup RejectedFrames |->
        Route(frame)]

\* handleFrame without its try/catch
EscapesUncaught(raised) == raised # ""

\* an exception raised inside handleFrame's try block leaves handleFrame:
\* never, the catch clause logs it
Escapes(raised) == FALSE

\* handleFrame(frame), called by the connection's data callback while the
\* controller exists and the read loop runs.  An exception leaving it would
\* pass through handleIncomingData to readLoop, whose catch ends the loop.
HandleFrame(frame) ==
    /\ connected
    /\ handled < MaxFrames
    /\ handled' = handled + 1
    /\ lastRoute' = Routes[frame]
    /\ LET route == Routes[frame]
       IN  CASE route.dest = "event" ->
                  LET r == emit(route.event)
                  IN  /\ callbacks' = [callbacks EXCEPT ![route.event] = r.list]
                      /\ invoked' = [id \in DOMAIN invoked |->
                            invoked[id] + Cardinality({i \in DOMAIN r.called :
                                                          r.called[i] = id})]
                      /\ lastEmit' = [event |-> route.event,
                                      before |-> callbacks[route.event],
                                      called |-> r.called, threw |-> r.threw]
                      /\ ops' = RunHandlers(r.called, route.data)
                      /\ rx' = NoRx
                      /\ connected' = ~Escapes(IF r.threw THEN "subscriber" ELSE "")
                      /\ UNCHANGED <<messageId, pendingRequests, calls, wire, now>>
             [] route.dest = "coap" ->
                  /\ HandleResponse(route.data)
                  /\ lastEmit' = NoEmit
                  /\ UNCHANGED <<callbacks, invoked, ops>>
             [] OTHER ->
                  /\ lastEmit' = NoEmit
                  /\ rx' = NoRx
                  /\ connected' = ~Escapes(IF route.dest = "error" THEN "decode" ELSE "")
                  /\ UNCHANGED <<callbacks, invoked, ops, messageId,
                                 pendingRequests, calls, wire, now>>
    /\ UNCHANGED subs
    /\ UNCHANGED <<codecVars, linkVars, msgVars>>

\* the events callbacks are registered for
SubscribedEvents == {"pong", "trace"}

InitCtl ==
    /\ MsgOff
    /\ OpsOff
    /\ CodecOff
    /\ LinkOff
    /\ CtlOff
    /\ messageId = 1
    /\ pendingRequests = <<>>
    /\ calls = <<>>
    /\ wire = <<>>
    /\ now = 0
    /\ connected = TRUE
    /\ rx = NoRx

NextCtl ==
    \/ \E e \in SubscribedEvents, throws \in BOOLEAN :
          On(e, throws) /\ UNCHANGED <<clientVars, notCtl>>
    \/ \E e \in SubscribedEvents, throws \in BOOLEAN :
          Once(e, throws) /\ UNCHANGED <<clientVars, notCtl>>
    \/ \E id \in DOMAIN subs : Off(id) /\ UNCHANGED <<clientVars, notCtl>>
    \/ \E frame \in CtlFrames : HandleFrame(frame)

SpecCtl == InitCtl /\ [][NextCtl]_vars

----------------------------------------------------------------------------
(* buildMessage applied to requests of every method, with and without a   *)
(* payload, to URIs of short and long path segments and queries            *)

\* a string of n letters 'a'
Letters(n) == [i \in 1..n |-> 97]

\* path segments: empty, one char, and around the 13 of the extended form
SegmentInputs == {Letters(n) : n \in {0, 1, 12, 13, MaxSegLen}}

\* pieces.join(sep)
RECURSIVE Join(_, _)
Join(pieces, sep) ==
    IF Len(pieces) = 0 THEN <<>>
    ELSE IF Len(pieces) = 1 THEN pieces[1]
    ELSE pieces[1] \o <<sep>> \o Join(Tail(pieces), sep)

PathInputs ==
    {Join(segs, 47) : segs \in UNION {[1..n -> SegmentInputs] : n \in 1..MaxSegments}}

\* no query, "d=a", a query of 13 chars, "d=a&e=b"
QueryInputs ==
    {<<>>, <<63, 100, 61, 97>>, <<63, 100, 61>> \o Letters(11),
     <<63, 100, 61, 97, 38, 101, 61, 98>>}

BuildInputs ==
    {[method |-> m, uri |-> p \o q, payload |-> pl, mid |-> 1] :
        m \in {METHODS[k] : k \in DOMAIN METHODS},
        p \in PathInputs, q \in QueryInputs,
        pl \in {NullPayload, CborValue(<<129, 25, 114, 120>>)}}

InitMsg ==
    /\ CodecOff
    /\ ClientOff
    /\ LinkOff
    /\ CtlOff
    /\ OpsOff
    /\ buildPc = "input"
    /\ buildIn \in BuildInputs
    /\ buildOut = <<>>

Build ==
    /\ buildPc = "input"
    /\ buildPc' = "built"
    /\ buildOut' = buildMessage(buildIn.method, buildIn.uri, buildIn.payload,
                                buildIn.mid)
    /\ UNCHANGED buildIn
    /\ UNCHANGED notMsg

NextMsg == Build

SpecMsg == InitMsg /\ [][NextMsg]_vars

----------------------------------------------------------------------------
(* The controller's operations, invoked in any order and overlapping,     *)
(* while the device sends pongs, system responses and announcements        *)

Ping(writable) == Len(ops) < MaxOps /\ StartOp("ping", writable)

SaveConfiguration(writable) == Len(ops) < MaxOps /\ StartOp("save", writable)

FactoryReset(writable) == Len(ops) < MaxOps /\ StartOp("reset", writable)

Reboot(writable) == Len(ops) < MaxOps /\ StartOp("reboot", writable)

NextOps ==
    \/ \E writable \in BOOLEAN : Ping(writable) /\ UNCHANGED notOps
    \/ \E writable \in BOOLEAN : SaveConfiguration(writable) /\ UNCHANGED notOps
    \/ \E writable \in BOOLEAN : FactoryReset(writable) /\ UNCHANGED notOps
    \/ \E writable \in BOOLEAN : Reboot(writable) /\ UNCHANGED notOps
    \/ \E o \in OpIds, ok \in BOOLEAN : OpSendComplete(o, ok) /\ UNCHANGED notOps
    \/ \E o \in OpIds : PingTimer(o) /\ UNCHANGED notOps
    \/ Advance /\ UNCHANGED notOps
    \/ \E frame \in OpFrames : HandleFrame(frame)

SpecOps == InitCtl /\ [][NextOps]_vars

----------------------------------------------------------------------------
(* initialize(): ping, the CORECONF handshake, getDeviceInfo, getPortStatus *)

\* the handshake request: FETCH "c?d=a" with [0x7278]
Handshake == CHOOSE r \in RequestInputs : TRUE

\* `/ietf-interfaces:interfaces/interface[name='eth${portIndex}']`
PortUri(portIndex) ==
    <<47, 105, 101, 116, 102, 45, 105, 110, 116, 101, 114, 102, 97, 99, 101,
      115, 58, 105, 110, 116, 101, 114, 102, 97, 99, 101, 115, 47, 105, 110,
      116, 101, 114, 102, 97, 99, 101, 91, 110, 97, 109, 101, 61, 39, 101,
      116, 104, 48 + portIndex, 39, 93>>

\* getPortCount() for a device type that names none of 9662, 9668, 9692
PortCount == 2

\* the operation record of initialize() itself, at ops[1]
Running(step) ==
    /\ ops # <<>>
    /\ ops[1].kind = "init"
    /\ ops[1].state = "running"
    /\ ops[1].step = step

\* everything but ops and the client's state stays
InitStepKeeps ==
    /\ lastRoute' = NoRoute
    /\ lastEmit' = NoEmit
    /\ UNCHANGED <<subs, callbacks, invoked, handled>>

ClientKeeps ==
    /\ rx' = NoRx
    /\ UNCHANGED <<messageId, pendingRequests, calls, wire, now, connected>>

\* initialize() up to its first await: ping() up to the await of sendBytes
Initialize(writable) ==
    /\ ops = <<>>
    /\ ops' = <<[NewOp("init", TRUE) EXCEPT !.state = "running", !.step = "ping",
                                           !.child = 2],
                NewOp("ping", writable)>>
    /\ wire' = IF writable THEN Append(wire, HandedOp(OpFrame.ping)) ELSE wire
    /\ rx' = NoRx
    /\ UNCHANGED <<messageId, pendingRequests, calls, now, connected>>
    /\ InitStepKeeps

\* `await this.ping()` is over: a rejection leaves initialize(); otherwise
\* coap.fetch('c?d=a', [0x7278]) is called, whatever the ping resolved with
AfterPing ==
    /\ Running("ping")
    /\ ops[ops[1].child].state \in {"resolved", "rejected"}
    /\ IF ops[ops[1].child].state = "rejected"
       THEN /\ ops' = [ops EXCEPT ![1].state = "rejected"]
            /\ ClientKeeps
       ELSE /\ \E writable \in BOOLEAN :
                  Request(Handshake.method, Handshake.uri, Handshake.payload, writable)
            /\ ops' = [ops EXCEPT ![1].step = "handshake", ![1].call = Len(calls) + 1]
    /\ InitStepKeeps

\* initialize() without the try/catch around the handshake
HandshakeAbortsUncaught(future) == future.state = "rejected"

\* the handshake's rejection leaves initialize(): never, the catch clause
\* warns and goes on
HandshakeAborts(future) == FALSE

\* `await this.coap.fetch(...)` is over: getDeviceInfo() up to the await of
\* sendBytes
AfterHandshake ==
    /\ Running("handshake")
    /\ Future(ops[1].call).state # "pending"
    /\ IF HandshakeAborts(Future(ops[1].call))
       THEN /\ ops' = [ops EXCEPT ![1].state = "rejected"]
            /\ UNCHANGED wire
       ELSE \E writable \in BOOLEAN :
            /\ ops' = Append([ops EXCEPT ![1].step = "info", ![1].child = Len(ops) + 1],
                             NewOp("info", writable))
            /\ wire' = IF writable THEN Append(wire, HandedOp(OpFrame.info)) ELSE wire
    /\ rx' = NoRx
    /\ UNCHANGED <<messageId, pendingRequests, calls, now, connected>>
    /\ InitStepKeeps

\* `await this.getDeviceInfo()` is over: getPortStatus() up to the await of
\* the first getPortInfo's coap.get
AfterInfo ==
    /\ Running("info")
    /\ ops[ops[1].child].state \in {"resolved", "rejected"}
    /\ IF ops[ops[1].child].state = "rejected"
       THEN /\ ops' = [ops EXCEPT ![1].state = "rejected"]
            /\ ClientKeeps
       ELSE /\ \E writable \in BOOLEAN :
                  Request(METHODS.GET, PortUri(0), NullPayload, writable)
            /\ ops' = [ops EXCEPT ![1].step = "ports", ![1].port = 0,
                                  ![1].call = Len(calls) + 1]
    /\ InitStepKeeps

\* a getPortInfo's `await this.coap.get(oid)` is over: a rejection leaves
\* initialize(), otherwise the next port is asked for, and after the last
\* one initialize() returns
AfterPort ==
    /\ Running("ports")
    /\ Future(ops[1].call).state # "pending"
    /\ IF Future(ops[1].call).state = "rejected"
       THEN /\ ops' = [ops EXCEPT ![1].state = "rejected"]
            /\ ClientKeeps
       ELSE IF ops[1].port + 1 < PortCount
       THEN /\ \E writable \in BOOLEAN :
                  Request(METHODS.GET, PortUri(ops[1].port + 1), NullPayload, writable)
            /\ ops' = [ops EXCEPT ![1].port = @ + 1, ![1].call = Len(calls) + 1]
       ELSE /\ ops' = [ops EXCEPT ![1].state = "resolved", ![1].step = "done"]
            /\ ClientKeeps
    /\ InitStepKeeps

\* the write of a request's frame settles, a request's timer runs
ClientStep(c) ==
    /\ \/ \E ok \in BOOLEAN : SendComplete(c, ok)
       \/ Timer(c)
    /\ lastRoute' = NoRoute
    /\ lastEmit' = NoEmit
    /\ UNCHANGED <<subs, callbacks, invoked, handled, ops>>

\* frames handleFrame is given during initialize(): the device's answers and
\* frames damaged on the way
InitFrames ==
    {DevicePong, encodeFrame(COMMANDS.ANNOUNCEMENT, CtlPayload)} \cup InitResponses
    \cup RejectedFrames

NextInit ==
    \/ \E writable \in BOOLEAN : Initialize(writable) /\ UNCHANGED notOps
    \/ AfterPing /\ UNCHANGED notOps
    \/ AfterHandshake /\ UNCHANGED notOps
    \/ AfterInfo /\ UNCHANGED notOps
    \/ AfterPort /\ UNCHANGED notOps
    \/ \E o \in OpIds, ok \in BOOLEAN : OpSendComplete(o, ok) /\ UNCHANGED notOps
    \/ \E o \in OpIds : PingTimer(o) /\ UNCHANGED notOps
    \/ \E c \in CallIds : ClientStep(c) /\ UNCHANGED notOps
    \/ Advance /\ UNCHANGED notOps
    \/ \E frame \in InitFrames : HandleFrame(frame)

SpecInit == InitCtl /\ [][NextInit]_vars

----------------------------------------------------------------------------
(* Claims *)

TimedOut(c) == calls[c].promise = Rejected("Request timeout", Undefined, NullPayload)

\* C1: for every payload p, decodeFrame(encodeFrame('C', p)) succeeds and
\* returns type 'C', data equal to p and a declared checksum equal to the
\* checksum the decoder recomputes.
C1_RoundTrip ==
    (codecPc = "decoded" /\ codecType = COMMANDS.COAP)
        => /\ codecResult.ok
           /\ codecResult.type = COMMANDS.COAP
           /\ codecResult.data = codecData
           /\ codecResult.checksum = codecResult.calculated

\* C2: when a response is dispatched, the requests it settles are exactly the
\* pending requests whose header carries the response's 16-bit message-id.
C2_CorrelatesByHeaderMid ==
    rx.kind = "response" => rx.settled = rx.waiting

\* C3: the resolvers of a request are called at most once, the future that
\* request() returned never changes once it is settled, and every request's
\* future is eventually settled.
C3_SettledExactlyOnce ==
    /\ [](\A c \in CallIds : calls[c].settles <= 1)
    /\ [][\A c \in CallIds :
             Future(c).state # "pending" => Future(c)' = Future(c)]_vars
    /\ \A c \in 1..MaxRequests :
          (c \in CallIds) ~> (c \in CallIds /\ Future(c).state # "pending")

C3_Witness ==
    \E c \in CallIds :
        /\ calls[c].settles = 1
        /\ calls[c].promise.state = "resolved"
        /\ calls[c].timer = "fired"
        /\ calls[c].send = "ok"
        /\ Future(c) = calls[c].promise

\* C4: a request's promise is rejected with the timeout error no earlier than
\* 10 s after request(); once a timer has run the request is settled and its
\* entry is gone; a timer that finds the request unsettled rejects it with the
\* timeout error; and a response carrying the message-id of a timed-out request
\* runs no resolver (it finds no entry).
C4_Timeout ==
    /\ [](\A c \in CallIds :
            /\ TimedOut(c) => now >= calls[c].at + 10000
            /\ calls[c].timer = "fired" =>
                  /\ calls[c].promise.state # "pending"
                  /\ c \notin InMap(pendingRequests))
    /\ [][\A c \in CallIds :
             (Timer(c) /\ calls[c].promise.state = "pending") => TimedOut(c)']_vars
    /\ [](rx.kind = "response" =>
            ((\E c \in CallIds : TimedOut(c) /\ calls[c].hdr = rx.mid)
                => rx.settled = {}))

\* a request timed out, and a response with its message-id came afterwards
C4_Witness ==
    \E c \in CallIds :
        /\ TimedOut(c)
        /\ calls[c].timer = "fired"
        /\ calls[c].send = "ok"
        /\ c \notin InMap(pendingRequests)
        /\ rx.kind = "response"
        /\ rx.mid = calls[c].hdr
        /\ rx.settled = {}

\* C5: whenever a frame is handed to the transport, the entry of its request
\* is already in the pending map, and it stays there, under the allocated
\* message-id, for as long as the request is unsettled.
C5_RegisteredBeforeWrite ==
    \A i \in 1..Len(wire) :
        /\ wire[i].registered
        /\ LET c == wire[i].call
           IN  calls[c].promise.state = "pending" =>
                  /\ calls[c].mid \in DOMAIN pendingRequests
                  /\ pendingRequests[calls[c].mid].call = c

\* a response dispatched while the write was still in progress found the entry
C5_Witness ==
    \E i \in 1..Len(wire) :
        /\ wire[i].registered
        /\ calls[wire[i].call].send = "writing"
        /\ rx.kind = "response"
        /\ rx.settled = {wire[i].call}

\* C6: when the transport write of a request fails, its entry is not in the
\* pending map and the caller's future is rejected with the transport error.
C6_FailedSendRemoved ==
    \A c \in CallIds :
        calls[c].send = "failed" =>
            /\ c \notin InMap(pendingRequests)
            /\ Future(c) = Rejected(calls[c].sendError, Undefined, NullPayload)

\* C7: no two pending requests carry the same 16-bit message-id in their
\* headers.
C7_UniqueHeaderMids ==
    \A c1, c2 \in InMap(pendingRequests) :
        c1 # c2 => calls[c1].hdr # calls[c2].hdr

\* C8: the counter is post-incremented once per request and wraps modulo 2^16
\* (after 65535 comes 0), and an entry's key equals the 16-bit message-id in
\* its request's header.
C8_CounterWraps ==
    /\ \A c \in CallIds :
          /\ calls[c].mid = calls[c].hdr
          /\ c + 1 \in CallIds => calls[c + 1].mid = (calls[c].mid + 1) % 65536
    /\ \A k \in DOMAIN pendingRequests : k = calls[pendingRequests[k].call].hdr

\* C9: after teardown the pending map is empty and no request is left
\* unsettled (each one pending at teardown was rejected).
C9_TeardownDrains ==
    ~connected =>
        /\ DOMAIN pendingRequests = {}
        /\ \A c \in CallIds : calls[c].promise.state # "pending"

\* C10: a response matched to a pending entry removes the entry and resolves
\* the request with the response payload if and only if code >> 5 = 2; for any
\* other code it rejects with an error carrying the code and the payload.
C10_ClassTwoResolves ==
    [][(rx'.kind = "response" /\ rx'.settled # {}) =>
          \A data \in ResponseData :
              LET response == parseResponse(data)
                  key == response.messageId
              IN  (response.ok /\ HandleResponse(data)) =>
                     LET c == pendingRequests[key].call
                         after == calls'[c].promise
                     IN  /\ key \notin DOMAIN pendingRequests'
                         /\ calls[c].promise.state = "pending"
                         /\ after.payload = response.payload
                         /\ (after.state = "resolved") <=> (response.code \div 32 = 2)
                         /\ (response.code \div 32 # 2) =>
                               /\ after.state = "rejected"
                               /\ after.code = response.code]_vars

C10_Witness ==
    \E c \in CallIds :
        /\ calls[c].promise.state = "rejected"
        /\ calls[c].promise.code = 132
        /\ ~calls[c].promise.payload.null
        /\ calls[c].settles = 1
        /\ c \notin InMap(pendingRequests)

\* C11: a request rejected by a 4.04 response (code 0x84 = 132) carries the
\* code 0x84 and the reason text "Not Found", the name mapped from the code.
C11_NotFoundReason ==
    \A c \in CallIds :
        (calls[c].promise.state = "rejected" /\ calls[c].promise.code = 132)
            => calls[c].promise.error = "Not Found"

\* C12: once the whole stream has been delivered, in whatever chunks, the
\* frames emitted (and the bytes left in the buffer) are those of delivering
\* the stream in a single call.
C12_ChunkingInvariant ==
    fed = Len(stream) =>
        /\ emitted = handleIncomingData(<<>>, stream).frames
        /\ rxBuffer = handleIncomingData(<<>>, stream).buffer

\* two frames, the first arriving in pieces
C12_Witness ==
    /\ fed = Len(stream)
    /\ split
    /\ stream = clean
    /\ Len(emitted) = 2
    /\ decodeFrame(emitted[1]).ok
    /\ decodeFrame(emitted[2]).ok

\* C13: with garbage bytes other than SOF between the frames, the frames
\* emitted, and what decodeFrame makes of them, are those of the stream
\* without the garbage.
C13_GarbageSkipped ==
    fed = Len(stream) =>
        /\ emitted = handleIncomingData(<<>>, clean).frames
        /\ DecodedFrames(emitted) =
              DecodedFrames(handleIncomingData(<<>>, clean).frames)

\* garbage starting with '<' stood between two frames that were both decoded
C13_Witness ==
    /\ fed = Len(stream)
    /\ Len(stream) = Len(clean) + 3
    /\ Len(emitted) = 2
    /\ decodeFrame(emitted[1]).ok
    /\ decodeFrame(emitted[2]).ok
    /\ rxBuffer = <<>>

\* a scan of an escaped payload: every escape byte met is followed by the
\* escape code of some byte
RECURSIVE EscapesPaired(_)
EscapesPaired(region) ==
    IF region = <<>> THEN TRUE
    ELSE IF Head(region) = ESCAPE
    THEN /\ Len(region) >= 2
         /\ \E b \in DOMAIN ESCAPE_MAP : ESCAPE_MAP[b] = region[2]
         /\ EscapesPaired(Tail(Tail(region)))
    ELSE EscapesPaired(Tail(region))

\* the payload region of an encodeFrame output: after SOF and type, before
\* the EOF byte(s) and the four checksum characters
PayloadRegion(frame, data) == SubSeq(frame, 3, 2 + Len(EscapeData(data)))

\* C14: unescapeByte undoes ESCAPE_MAP for every escaped byte of the payload,
\* and in the payload region of the encoded frame every escape byte starts a
\* two-byte escape pair.
C14_EscapeReversible ==
    codecPc \in {"encoded", "decoded"} =>
        /\ \A i \in DOMAIN codecData :
              needsEscape(codecData[i]) =>
                  unescapeByte(ESCAPE_MAP[codecData[i]]) = codecData[i]
        /\ EscapesPaired(PayloadRegion(codecFrame, codecData))

\* C15: the encoded ping (type 0x50, empty payload) is the 8 bytes
\* 3E 50 3C 3C 38 35 37 33.
C15_PingFrame ==
    (codecPc \in {"encoded", "decoded"} /\ codecType = COMMANDS.PING
        /\ codecData = <<>>)
        => /\ codecFrame = <<62, 80, 60, 60, 56, 53, 55, 51>>
           /\ createPing = codecFrame

\* the big-endian 16-bit words of a byte sequence, an odd one padded with a
\* zero byte, added up
WordSum(bytes) ==
    LET padded == IF Len(bytes) % 2 = 1 THEN bytes \o <<0>> ELSE bytes
        Word(k) == padded[2 * k - 1] * 256 + padded[2 * k]
        RECURSIVE Sum(_)
        Sum(k) == IF k = 0 THEN 0 ELSE Word(k) + Sum(k - 1)
    IN  Sum(Len(padded) \div 2)

\* the sum with end-around carry: the residue modulo 0xFFFF, with 0xFFFF for
\* a non-zero multiple
EndAroundCarry(total) == IF total = 0 THEN 0 ELSE ((total - 1) % 65535) + 1

\* the value of an upper-case hexadecimal character
HexValue(char) ==
    IF char \in 48..57 THEN char - 48
    ELSE IF char \in 65..70 THEN char - 55
    ELSE Undefined

\* C16: the checksum is the 16-bit one's complement of the end-around-carry
\* sum of the big-endian words (odd length padded with a zero byte), lies in
\* 0..0xFFFF, and ends the frame as four upper-case hexadecimal characters.
C16_Checksum ==
    codecPc \in {"encoded", "decoded"} =>
        LET part == ChecksummedPart(codecFrame)
            sum == calculateChecksum(part)
            text == SubSeq(codecFrame, Len(codecFrame) - 3, Len(codecFrame))
        IN  /\ sum = 65535 - EndAroundCarry(WordSum(part))
            /\ sum \in 0..65535
            /\ \E eofs \in {<<EOF>>, <<EOF, EOF>>} :
                  part = <<SOF, codecType>> \o EscapeData(codecData) \o eofs
            /\ \A i \in 1..4 : HexValue(text[i]) \in 0..15
            /\ HexValue(text[1]) * 4096 + HexValue(text[2]) * 256
                  + HexValue(text[3]) * 16 + HexValue(text[4]) = sum

\* an odd number of checksummed bytes whose words carry out of 16 bits
C16_Witness ==
    /\ codecPc = "encoded"
    /\ Len(ChecksummedPart(codecFrame)) % 2 = 1
    /\ WordSum(ChecksummedPart(codecFrame)) > 65535

\* the frame with the checksum encodeFrame would have appended
Repaired(frame) ==
    ChecksummedPart(frame) \o ChecksumStr(calculateChecksum(ChecksummedPart(frame)))

InSeq(list, id) == \E i \in DOMAIN list : list[i] = id

\* C17: a frame whose declared checksum is wrong is decoded and dispatched
\* exactly as the same frame with the right checksum: decodeFrame does not
\* fail, and destination, type and payload are the same.
C17_MismatchStillDelivered ==
    (lastRoute.dest # "none" /\ Len(lastRoute.frame) >= 8
        /\ lastRoute.frame # Repaired(lastRoute.frame))
        => LET good == Route(Repaired(lastRoute.frame))
           IN  /\ lastRoute.dest # "error"
               /\ lastRoute.dest = good.dest
               /\ lastRoute.event = good.event
               /\ lastRoute.type = good.type
               /\ lastRoute.data = good.data
               /\ lastRoute.dest = "event" => lastEmit.event = good.event
               /\ lastRoute.dest = "coap" => rx.kind # "none"

\* a ping frame with a wrong checksum reached a pong subscriber
C17_Witness ==
    /\ lastRoute.frame = Corrupt(encodeFrame(COMMANDS.PING, CtlPayload))
    /\ lastRoute.dest = "event"
    /\ lastEmit.event = "pong"
    /\ lastEmit.called # <<>>

\* the frame went to the subscribers of event e and nowhere else
PublishedOnly(e) ==
    /\ lastRoute.dest = "event"
    /\ lastEmit.event = e
    /\ \A i \in DOMAIN lastEmit.called : subs[lastEmit.called[i]].event = e
    /\ rx = NoRx

\* C18: a decoded frame goes to one destination chosen by its type: P to
\* pong, A to announcement, S to system-response, T to trace, and C to the
\* tracker's handleResponse with the decoded payload and without any event;
\* callbacks of other events are not called.
C18_RoutesByType ==
    /\ [](lastRoute.dest \notin {"none", "error"} =>
            LET decoded == decodeFrame(lastRoute.frame)
            IN  /\ decoded.type = COMMANDS.PING => PublishedOnly("pong")
                /\ decoded.type = COMMANDS.ANNOUNCEMENT => PublishedOnly("announcement")
                /\ decoded.type = COMMANDS.SYSTEM => PublishedOnly("system-response")
                /\ decoded.type = COMMANDS.TRACE => PublishedOnly("trace")
                /\ decoded.type = COMMANDS.COAP =>
                      /\ lastRoute.dest = "coap"
                      /\ lastRoute.data = decoded.data
                      /\ rx.kind # "none"
                      /\ lastEmit = NoEmit)
    /\ [][\A id \in DOMAIN invoked :
             invoked'[id] # invoked[id] =>
                 /\ lastRoute'.dest = "event"
                 /\ subs[id].event = lastRoute'.event
                 /\ lastRoute'.event = EventOf(decodeFrame(lastRoute'.frame).type)
                 /\ lastRoute'.event \in Events]_vars

\* a CoAP frame went to the tracker while subscribers were registered, and
\* none of them was called
C18_Witness ==
    /\ lastRoute.dest = "coap"
    /\ lastRoute.data = CtlPayload
    /\ rx.kind = "response"
    /\ rx.mid = 4660
    /\ Len(subs) = MaxSubs
    /\ \A id \in DOMAIN invoked : invoked[id] = 0

\* C19: when a callback throws during an emit, the callbacks registered
\* after it for the same event are still called in that emit.
C19_LaterSubscribersStillRun ==
    lastEmit.event # "" =>
        \A i, j \in DOMAIN lastEmit.before :
            (i < j /\ subs[lastEmit.before[i]].throws
                /\ InSeq(lastEmit.called, lastEmit.before[i]))
                => InSeq(lastEmit.called, lastEmit.before[j])

\* C20: a once() callback is called at most once, and after its first call
\* it is no longer in the table, whether it returned or threw.
C20_OnceAtMostOnce ==
    \A id \in DOMAIN subs :
        subs[id].once =>
            /\ invoked[id] <= 1
            /\ invoked[id] >= 1 => ~InSeq(callbacks[subs[id].event], id)

----------------------------------------------------------------------------
(* Claims C21..C30 *)

\* the length of an encoded frame up to and including its first EOF
ThroughFirstEof(data) == 2 + Len(EscapeData(data)) + 1

\* C27: in every encoded frame a second EOF is present exactly when the length
\* through the first EOF is odd, so the region the checksum covers (SOF through
\* the last EOF) always has even length.
C27_PaddingMakesEven ==
    codecPc \in {"encoded", "decoded"} =>
        /\ (Len(codecFrame) - 4 = ThroughFirstEof(codecData) + 1)
              <=> (ThroughFirstEof(codecData) % 2 = 1)
        /\ Len(ChecksummedPart(codecFrame)) % 2 = 0

\* the options of a CoAP message as a receiver reads them (RFC 7252, 3.1):
\* from byte 5 to the payload marker or the end, each option a header byte of
\* delta and length nibbles, nibble 13 followed by one extended byte
\* (value - 13), nibble 14 by two (value - 269), nibble 15 malformed
RECURSIVE ReadOptions(_, _, _, _)
ReadOptions(bytes, pos, prevNumber, acc) ==
    IF pos > Len(bytes) \/ bytes[pos] = 255 THEN [ok |-> TRUE, options |-> acc]
    ELSE
      LET dn == bytes[pos] \div 16
          ln == bytes[pos] % 16
          dExt == IF dn = 13 THEN 1 ELSE IF dn = 14 THEN 2 ELSE 0
          lExt == IF ln = 13 THEN 1 ELSE IF ln = 14 THEN 2 ELSE 0
          Ext(nibble, at) ==
              IF nibble = 13 THEN bytes[at] + 13
              ELSE IF nibble = 14 THEN bytes[at] * 256 + bytes[at + 1] + 269
              ELSE nibble
          start == pos + 1 + dExt + lExt
      IN  IF dn = 15 \/ ln = 15 \/ start - 1 > Len(bytes)
          THEN [ok |-> FALSE, options |-> acc]
          ELSE
            LET delta  == Ext(dn, pos + 1)
                length == Ext(ln, pos + 1 + dExt)
            IN  IF start + length - 1 > Len(bytes)
                THEN [ok |-> FALSE, options |-> acc]
                ELSE ReadOptions(bytes, start + length, prevNumber + delta,
                        Append(acc, [number |-> prevNumber + delta,
                                     value |-> SubSeq(bytes, start, start + length - 1)]))

WireOptions(message) == ReadOptions(message, 5, 0, <<>>)

\* the path segments and the query segments of a URI
UriSegments(uri) == NonEmpty(Split(Split(uri, 63)[1], 47))
UriQueries(uri) ==
    IF Len(Split(uri, 63)) >= 2 THEN NonEmpty(Split(Split(uri, 63)[2], 38)) ELSE <<>>

\* the values of the options with a given number, in order
ValuesOf(options, number) ==
    LET sel == SelectSeq(options, LAMBDA o : o.number = number)
    IN  [i \in 1..Len(sel) |-> sel[i].value]

\* C25: in every built message the options read in non-decreasing number
\* order as the Uri-Path options (11) of the URI's segments, then
\* Content-Format (12), then the Uri-Query options (15) of its queries; a
\* delta or length of 13 or more, and no other, uses the extended field.
C25_OptionsInOrder ==
    buildPc = "built" =>
        LET read == WireOptions(buildOut)
        IN  /\ read.ok
            /\ \A i \in DOMAIN read.options : read.options[i].number \in {11, 12, 15}
            /\ \A i, j \in DOMAIN read.options :
                  i < j => read.options[i].number <= read.options[j].number
            /\ ValuesOf(read.options, 11) = UriSegments(buildIn.uri)
            /\ ValuesOf(read.options, 15) = UriQueries(buildIn.uri)

\* C26: a built message contains the Content-Format option (12, value 60) if
\* and only if it carries a payload; a request without payload has no
\* option 12.
\* (Stated for URIs of path segments shorter than 13, whose options a
\* receiver reads back as they were written.)
C26_ContentFormatIffPayload ==
    (buildPc = "built" /\ \A i \in DOMAIN UriSegments(buildIn.uri) :
                              Len(UriSegments(buildIn.uri)[i]) < 13) =>
        ((\E i \in DOMAIN WireOptions(buildOut).options :
              WireOptions(buildOut).options[i] = [number |-> 12, value |-> <<60>>])
          <=> ~buildIn.payload.null)

\* the Uri-Path options of a list of segments in the option format: header
\* byte of delta and length nibble, the extended length byte for 13..268
RECURSIVE PathOptionBytes(_, _)
PathOptionBytes(segments, prevNumber) ==
    IF segments = <<>> THEN <<>>
    ELSE LET segment == Head(segments)
             delta == 11 - prevNumber
             head == IF Len(segment) < 13 THEN <<delta * 16 + Len(segment)>>
                     ELSE <<delta * 16 + 13, Len(segment) - 13>>
         IN  head \o segment \o PathOptionBytes(Tail(segments), 11)

\* C28: every path segment of length 13..268, the first and the later ones
\* (delta 0), is encoded as the header byte (delta, 13), one extended byte
\* length - 13 and the segment bytes.
C28_LongSegments ==
    (buildPc = "built" /\ \E i \in DOMAIN UriSegments(buildIn.uri) :
                              Len(UriSegments(buildIn.uri)[i]) >= 13)
        => LET expected == PathOptionBytes(UriSegments(buildIn.uri), 0)
           IN  SubSeq(buildOut, 5, 4 + Len(expected)) = expected

\* C29: when request() allocates a message-id whose 16-bit header value is
\* that of a request still pending, the new request is rejected at once
\* (too many in flight) without an entry of its own, and the pending entries
\* and their requests are left as they were.
C29_CollisionRejected ==
    [][(/\ Len(calls') = Len(calls) + 1
        /\ \E c \in InMap(pendingRequests) :
              calls[c].hdr = calls'[Len(calls')].hdr)
       => /\ calls'[Len(calls')].promise.state = "rejected"
          /\ pendingRequests' = pendingRequests
          /\ \A c \in CallIds : calls'[c] = calls[c]]_vars

\* C30: the callbacks an emit calls are called in the order of their
\* registration (callback ids count registrations), and the event delivered
\* by a handleFrame call is the event of the frame that call decoded: frames
\* are delivered one by one in the order they are handled.
C30_RegistrationOrder ==
    /\ \A i, j \in DOMAIN lastEmit.called :
          i < j => lastEmit.called[i] < lastEmit.called[j]
    /\ lastRoute.dest = "event" =>
          /\ lastEmit.event = EventOf(decodeFrame(lastRoute.frame).type)
          /\ \A i \in DOMAIN lastEmit.called :
                subs[lastEmit.called[i]].event = lastEmit.event
    /\ lastRoute.dest # "event" => lastEmit.called = <<>>

\* two callbacks called by the emit of the second frame handled
C30_Witness ==
    /\ handled = 2
    /\ lastRoute.dest = "event"
    /\ Len(lastEmit.called) >= 2

PingFramesSent == Cardinality({i \in DOMAIN wire : wire[i].frame = createPing})

\* C21: every ping hands at most one P frame to the transport; a ping that
\* waits for its pong, alone (every earlier ping has settled) and with its
\* second not yet over, resolves true when a pong event is dispatched; and a
\* ping resolves false only by its timer.
C21_PingResolves ==
    /\ [](PingFramesSent <= Cardinality({o \in OpIds : ops[o].kind = "ping"}))
    /\ [](\A o \in OpIds :
            (ops[o].kind = "ping" /\ ops[o].state = "resolved" /\ ~ops[o].value)
                => ops[o].timer = "fired")
    /\ [][\A o \in OpIds :
            (/\ ops[o].kind = "ping"
             /\ ops[o].state = "waiting"
             /\ now < ops[o].deadline
             /\ \A p \in OpIds \ {o} : ops[p].state \notin {"writing", "waiting"}
             /\ handled' = handled + 1
             /\ lastEmit'.event = "pong")
            => (ops'[o].state = "resolved" /\ ops'[o].value)]_vars

\* haystack contains needle as a run of consecutive bytes
ContainsBytes(haystack, needle) ==
    \E i \in 1..(Len(haystack) - Len(needle) + 1) :
        SubSeq(haystack, i, i + Len(needle) - 1) = needle

\* C22: saveConfiguration() and factoryReset() resolve with true exactly when
\* the system-response payload their handler was given contains the ASCII
\* text "success", and with false when it does not; reboot() is resolved
\* (true) once its frame is written, whatever frames have arrived.
C22_SuccessText ==
    \A o \in OpIds :
        /\ (ops[o].kind \in {"save", "reset"} /\ ops[o].state = "resolved")
              => (ops[o].value <=> ContainsBytes(ops[o].data, Ascii.success))
        /\ (ops[o].kind = "reboot" /\ ops[o].state = "resolved") => ops[o].value

\* the place of a frame in the order initialize() sends its frames in: the
\* ping, the handshake, the info request, the port requests
SendRank(frame) ==
    IF frame = OpFrame.ping THEN 1
    ELSE IF \E mid \in 1..MaxRequests :
               frame = createCoapFrame(buildMessage(Handshake.method, Handshake.uri,
                                                    Handshake.payload, mid))
    THEN 2
    ELSE IF frame = OpFrame.info THEN 3
    ELSE 4

\* C23: initialize() sends the ping, then the FETCH c?d=a handshake, then the
\* device-info request, each only after the step before it is over; the
\* handshake ending in an error response or a timeout does not end
\* initialize(), which goes on to the device-info request.
C23_InitializeOrder ==
    (ops # <<>> /\ ops[1].kind = "init") =>
        /\ \A i, j \in DOMAIN wire :
              (i < j /\ SendRank(wire[i].frame) < 4)
                  => SendRank(wire[i].frame) < SendRank(wire[j].frame)
        /\ ops[1].step # "ping" => ops[2].state = "resolved"
        /\ ops[1].step = "ping" => calls = <<>>
        /\ ops[1].step \in {"ping", "handshake"} => Len(ops) = 2
        /\ ops[1].step \in {"info", "ports", "done"} =>
              /\ Future(1).state # "pending"
              /\ ops[3].kind = "info"
        /\ ops[1].step = "handshake" => ops[1].state = "running"

\* the handshake was rejected (error response, timeout or failed write) and
\* the device-info request has been handed to the transport after it
C23_Witness ==
    /\ ops # <<>>
    /\ ops[1].kind = "init"
    /\ ops[1].step = "info"
    /\ Future(1).state = "rejected"
    /\ Future(1).error \in {"Request timeout", "Error 132"}
    /\ wire[Len(wire)].frame = OpFrame.info

-----------------------------------------------------------------------------
(* Claims C31..C40 *)

\* how many times a callback id occurs among the callbacks an emit called
TimesCalled(called, id) == Cardinality({i \in DOMAIN called : called[i] = id})

\* C31: an emit none of whose subscribers throws calls every callback that
\* was in the event's list when the emit started exactly once, also when a
\* once() callback earlier in the list removes itself during the delivery.
C31_EachSubscriberOnce ==
    (lastEmit.event # "" /\ ~lastEmit.threw) =>
        \A i \in DOMAIN lastEmit.before :
            TimesCalled(lastEmit.called, lastEmit.before[i]) = 1

\* C32: once an operation that registered a once() handler has resolved, that
\* handler is no longer in the callbacks table; a ping resolved false by its
\* timer leaves no pong handler behind.
C32_NoHandlerLeftBehind ==
    \A o \in OpIds :
        (ops[o].state = "resolved" /\ ops[o].sub # 0)
            => ~InSeq(callbacks[OpEvent[ops[o].kind]], ops[o].sub)

\* C34: a response whose message-id is the key of no pending entry (late,
\* duplicate or unsolicited) is dropped: the pending map, the message-id
\* counter and every call's promise and returned future stay as they were.
C34_UnmatchedDropped ==
    [][(rx'.kind = "response" /\ rx'.mid \notin DOMAIN pendingRequests)
          => /\ rx'.settled = {}
             /\ pendingRequests' = pendingRequests
             /\ messageId' = messageId
             /\ calls' = calls
             /\ \A c \in CallIds : Future(c)' = Future(c)]_vars

\* a response for a request that has already timed out is dispatched while
\* another request is still pending
C34_Witness ==
    /\ rx.kind = "response"
    /\ rx.settled = {}
    /\ InMap(pendingRequests) # {}
    /\ \E c \in CallIds :
          /\ calls[c].hdr = rx.mid
          /\ calls[c].timer = "fired"
          /\ c \notin InMap(pendingRequests)

\* C35: the frames handed to the transport are in the order of the request()
\* calls that made them, each call that found the port writable having handed
\* exactly one frame, whatever else runs between the calls.
C35_CallOrderIsWireOrder ==
    /\ \A i, j \in DOMAIN wire : i < j => wire[i].call < wire[j].call
    /\ \A c \in CallIds :
          Cardinality({i \in DOMAIN wire : wire[i].call = c})
              = IF calls[c].sendError = "Not connected" THEN 0 ELSE 1

\* two requests whose writes are both still in progress
C35_Witness ==
    /\ Len(wire) >= 2
    /\ \A i \in DOMAIN wire : calls[wire[i].call].send = "writing"

\* the payload sequences whose frames make the device streams
LinkLists == SeqsUpTo(LinkPayloads, MaxFrames)

\* the frames of a payload sequence, one after the other on the wire
WireOf(list) == Concat([i \in DOMAIN list |-> encodeFrame(COMMANDS.COAP, list[i])], <<>>)

\* C36: when frames made by encodeFrame from non-empty payloads arrive one
\* after the other, in whatever chunks, the reassembler emits exactly those
\* frames and decodeFrame returns their (type, payload) pairs in the same
\* order, also for payloads holding 0x3C or 0x3E: an escaped EOF inside a
\* payload ends no frame.
C36_LinkRoundTrip ==
    \A list \in LinkLists :
        (/\ \A i \in DOMAIN list : list[i] # <<>>
         /\ stream = WireOf(list)
         /\ fed = Len(stream)) =>
            /\ Len(emitted) = Len(list)
            /\ \A i \in DOMAIN list :
                  /\ emitted[i] = encodeFrame(COMMANDS.COAP, list[i])
                  /\ decodeFrame(emitted[i]).ok
                  /\ decodeFrame(emitted[i]).type = COMMANDS.COAP
                  /\ decodeFrame(emitted[i]).data = list[i]

\* the buffer holds a SOF, the first EOF after it (with the second EOF of a
\* padded frame, when it is there) and at least 4 bytes after that
HoldsCompleteFrame(buf) ==
    \E s, e \in DOMAIN buf :
        /\ s < e
        /\ buf[s] = SOF
        /\ buf[e] = EOF
        /\ \A k \in (s + 1)..(e - 1) : buf[k] # EOF
        /\ LET last == IF e < Len(buf) /\ buf[e + 1] = EOF THEN e + 1 ELSE e
           IN  Len(buf) >= last + 4

\* C37: after every handleIncomingData call the buffer holds no complete
\* frame: a frame whose SOF, EOF and 4 checksum bytes have arrived has been
\* emitted.
C37_NoCompleteFrameLeft == ~HoldsCompleteFrame(rxBuffer)

\* one call received two whole frames and emitted both
C37_Witness ==
    /\ fed = Len(stream)
    /\ ~split
    /\ Len(emitted) = 2
    /\ HoldsCompleteFrame(stream)

\* C38: for a stream in which no frame was cut short (no payload holds an
\* escaped EOF), when the buffer holds no SOF after a push it is empty or a
\* single escape byte: bytes that cannot belong to a frame are not kept.
C38_GarbageDiscarded ==
    (/\ \A k \in 1..(Len(stream) - 1) : ~(stream[k] = ESCAPE /\ stream[k + 1] = EOF)
     /\ \A k \in DOMAIN rxBuffer : rxBuffer[k] # SOF)
        => (rxBuffer = <<>> \/ rxBuffer = <<ESCAPE>>)

\* C39: a frame shorter than 8 bytes, or whose first byte is not SOF, is
\* rejected by decodeFrame: handleFrame calls no subscriber and no response
\* handler for it, and the subscriber table, the pending map, the requests
\* and the operations stay as they were.
C39_RejectedFrameTouchesNothing ==
    [][(/\ lastRoute'.frame # <<>>
        /\ (Len(lastRoute'.frame) < 8 \/ lastRoute'.frame[1] # SOF))
          => /\ lastRoute'.dest = "error"
             /\ lastEmit' = NoEmit
             /\ rx' = NoRx
             /\ <<subs, callbacks, invoked>>' = <<subs, callbacks, invoked>>
             /\ <<pendingRequests, calls, ops>>' = <<pendingRequests, calls, ops>>]_vars

\* a frame without SOF was handled while a pong handler was registered and a
\* request was pending
C39_Witness ==
    /\ lastRoute.dest = "error"
    /\ Len(lastRoute.frame) >= 8
    /\ lastRoute.frame[1] # SOF
    /\ callbacks["pong"] # <<>>
    /\ InMap(pendingRequests) # {}

\* C40: a CoAP message shorter than 4 bytes, or whose version field is not 1,
\* is rejected by parseResponse: handling it resolves no request, also when
\* its message-id is that of a pending entry.
C40_MalformedNeverResolves ==
    [][\A data \in ResponseData :
          (/\ Len(data) < 4 \/ (data[1] \div 64) % 4 # 1
           /\ HandleResponse(data))
             => /\ rx'.kind = "invalid"
                /\ \A c \in CallIds :
                      calls'[c].promise.state = "resolved"
                          => calls[c].promise.state = "resolved"]_vars

\* C33: when an announcement frame is dispatched, every getDeviceInfo() whose
\* S:info frame has been handed to the transport and which has not settled
\* yet resolves in that step with the frame's payload, which becomes the
\* device info: the first announcement after the hand-off is not missed.
C33_FirstAnnouncementResolves ==
    [][(lastRoute'.dest = "event" /\ lastRoute'.event = "announcement") =>
          \A o \in OpIds :
              (ops[o].kind = "info" /\ ops[o].state \in {"writing", "waiting"})
                  => /\ ops'[o].state = "resolved"
                     /\ ops'[o].data = lastRoute'.data]_vars

====
